---- MODULE Spec2Model ----
(***************************************************************************)
(* MixDoctor: the synthetic training-data generators                       *)
(* (Features/Analysis/CoreML/Training/generate_training_data.py).          *)
(*                                                                         *)
(* Units.  Python floats are modelled as exact fixed-point integers:       *)
(*   features (stereoWidth, correlation, ratios, dB values) : 1/1000       *)
(*   confidence                                             : 1/10^7       *)
(*   scores (balanceScore, overallScore) and their noise    : 1/100 point  *)
(* so 0.3 is 300, confidence 1.0 is 10000000 and score 100 is 10000.       *)
(*                                                                         *)
(* Randomness.  The program draws from numpy's process-global generator    *)
(* (the np.random module), which is never seeded: its start state is any   *)
(* value, and afterwards every draw is a function of that hidden state and *)
(* advances it.  rng is that state; each np.random call reads one value    *)
(* from the table of its distribution and steps the state once.            *)
(***************************************************************************)
EXTENDS Integers, Sequences, FiniteSets

VARIABLES
    mode,       \* "main": run as a script (line 283); "api": generators called by an importer; "rule": row rules on enumerated draws
    mainIdx,    \* main(): index in Order of the generator main() handles next (5 = complete)
    status,     \* generator call: "idle", "running" (inside the for loop), "returned"
    gname,      \* generator of the current / last call
    n_samples,  \* its n_samples argument
    iter,       \* iterations of its `for _ in range(n_samples)` loop completed
    data,       \* its row accumulator (the list `data`)
    ret,        \* the DataFrame the last call returned
    rng,        \* state of the process-global np.random generator
    seed0,      \* the state the process-global generator started from
    calls,      \* number of generator calls made so far
    files,      \* file name -> what to_csv wrote there
    writes,     \* the file names to_csv has written, in order
    rowgen,     \* "rule" mode: the generator whose row rule is applied
    raw,        \* "rule" mode: the raw draws handed to the rule
    row,        \* "rule" mode: the row the rule produced
    rowpc,      \* "rule" mode: "off", "sampled", "labelled"
    scanpc,     \* remove_print_statements: "off", "loop" (inside `for line in lines`), "returned"
    lines,      \* its list `lines`, as read from the file
    pos,        \* the number of lines the for loop has handled
    new_lines,  \* its list `new_lines`
    in_print,   \* its flag `in_print`
    paren_count,    \* its counter `paren_count`
    removed_count   \* its counter `removed_count`

vars == <<mode, mainIdx, status, gname, n_samples, iter, data, ret, rng, seed0, calls,
          files, writes, rowgen, raw, row, rowpc,
          scanpc, lines, pos, new_lines, in_print, paren_count, removed_count>>

\* the state of remove_print_statements (remove_prints.py)
scanVars == <<scanpc, lines, pos, new_lines, in_print, paren_count, removed_count>>

-----------------------------------------------------------------------------
(* Bounds of the model *)

\* API calls pass n_samples in -1..MaxN
MaxN == 2
\* an importing process makes at most this many generator calls
MaxCalls == 2
\* the generator's start states explored are 0..MaxSeed
MaxSeed == 15
\* main() passes the literal 2000 to every generator (lines 253, 259, 265, 271); the
\* model scales that count down to this many rows per generator
MainSamples == 2
\* a file handed to remove_print_statements has at most this many lines
MaxLines == 3

-----------------------------------------------------------------------------
(* Values the distributions can return (a finite sample of their support)  *)

\* np.random.beta(5, 5): support [0,1]
BetaVals == <<0, 100, 280, 281, 299, 300, 319, 320, 500, 680, 681, 700, 701, 719, 720, 900, 1000>>
\* np.random.beta(5, 5) at line 190, stereoWidth of the quality generator
WidthVals == <<0, 299, 300, 500, 700, 701, 1000>>
\* np.random.gamma(2, 2): support [0, inf)
GammaVals == <<0, 1, 2000, 4000, 30000>>
\* np.random.random(): a double k * 2^-53 in [0,1).  1000 stands for the doubles just
\* below 1.0 (1 - 2^-53 and its neighbours): in double arithmetic 0.8 + u * 0.2,
\* 0.7 + u * 0.25 and 0.85 + u * 0.15 round, for them, to the value at u = 1
UniformVals == <<0, 1, 500, 999, 1000>>
\* np.random.normal(0.7, 0.2), correlation of the stereo-width and quality generators
CorrHighVals == <<-1100, -1000, -1, 0, 299, 300, 800, 900, 1000, 1200>>
\* np.random.normal(0, 0.1), leftRightBalance
BalanceVals == <<-1500, -1000, -100, 0, 100, 1000, 1001>>
\* np.random.normal(0.5, 0.4), correlation of the phase generator
CorrMidVals == <<-1400, -1000, -500, -1, 0, 250, 251, 299, 300, 349, 350, 500, 1000, 1300>>
\* np.random.normal(12, 4), dynamicRange
DynVals == <<-1000, 2000, 5999, 6000, 12000, 18000, 18001, 26000>>
\* np.random.normal(-3, 2), peakLevel
PeakVals == <<-21000, -20000, -3000, -1000, -999, 500>>
\* np.random.dirichlet([5, 3, 6, 4, 2.5]): five ratios in [0,1] summing to 1
DirichletVals == << <<250, 150, 300, 180, 120>>,
                    <<400, 150, 300, 100, 50>>,
                    <<401, 150, 300, 100, 49>>,
                    <<200, 200, 200, 200, 200>>,
                    <<1000, 0, 0, 0, 0>>,
                    <<0, 0, 0, 1000, 0>>,
                    <<0, 0, 0, 0, 1000>> >>
\* np.random.normal(0, 5), noise of balanceScore (1/100 point)
BalanceNoiseVals == <<-30000, -500, -1, 0, 1, 500, 30000>>
\* np.random.normal(0, 3), noise of overallScore (1/100 point)
QualityNoiseVals == <<-30000, -300, 0, 300, 30000>>

Range(s) == {s[i] : i \in 1..Len(s)}

-----------------------------------------------------------------------------
(* The process-global random generator *)

\* one step of the generator's state
RngNext(s) == (s * 31 + 17) % 1009

\* the state after k draws
RECURSIVE RngAfter(_, _)
RngAfter(s, k) == IF k = 0 THEN s ELSE RngAfter(RngNext(s), k - 1)

\* the value a draw from distribution table tbl returns in state s
Draw(tbl, s) == tbl[(s % Len(tbl)) + 1]

-----------------------------------------------------------------------------
(* numpy helpers *)

\* np.clip that only bounds from above
Clip_NoLower(x, lo, hi) == IF x > hi THEN hi ELSE x

\* np.clip(x, lo, hi)
Clip(x, lo, hi) == IF x < lo THEN lo ELSE IF x > hi THEN hi ELSE x

Abs(x) == IF x < 0 THEN -x ELSE x

Min(a, b) == IF a < b THEN a ELSE b

Max(a, b) == IF a > b THEN a ELSE b

\* ideal_bass, ideal_low_mid, ideal_mid, ideal_high_mid, ideal_high
ideal_ratios == <<250, 150, 300, 180, 120>>

\* deviations: per-band absolute deviation from the ideal ratio
deviations(ratios) == [k \in 1..5 |-> Abs(ratios[k] - ideal_ratios[k])]

\* 5 * np.mean(deviations): the mean is kept as the exact sum of the five
DeviationSum(ratios) ==
    LET d == deviations(ratios) IN d[1] + d[2] + d[3] + d[4] + d[5]

\* np.max(deviations)
max_deviation(ratios) ==
    LET d == deviations(ratios) IN Max(d[1], Max(d[2], Max(d[3], Max(d[4], d[5]))))

-----------------------------------------------------------------------------
(* generate_stereo_width_data: the body of one loop iteration *)

\* StereoClassification with the thresholds themselves classified as out of range
StereoClassification_Inclusive(stereo_width) ==
    IF stereo_width <= 300 THEN 0
    ELSE IF stereo_width >= 700 THEN 2
    ELSE 1

\* lines 37-45, the classification of the if/elif/else: 0 tooNarrow, 1 good, 2 tooWide
StereoClassification(stereo_width) ==
    IF stereo_width < 300 THEN 0
    ELSE IF stereo_width > 700 THEN 2
    ELSE 1

\* lines 37-45, the confidence of the if/elif/else; u is np.random.random()
StereoBaseConfidence(stereo_width, u) ==
    IF stereo_width < 300 THEN 7000000 + u * 2500
    ELSE IF stereo_width > 700 THEN 7000000 + u * 2500
    ELSE 8000000 + u * 2000

\* StereoAttenuate with the window edges 0.28, 0.32, 0.68, 0.72 included
StereoAttenuate_Closed(stereo_width, confidence) ==
    IF (280 <= stereo_width /\ stereo_width <= 320) \/ (680 <= stereo_width /\ stereo_width <= 720)
    THEN (confidence * 7) \div 10
    ELSE confidence

\* lines 48-49: confidence *= 0.7 near the boundaries
StereoAttenuate(stereo_width, confidence) ==
    IF (280 < stereo_width /\ stereo_width < 320) \/ (680 < stereo_width /\ stereo_width < 720)
    THEN (confidence * 7) \div 10
    ELSE confidence

\* lines 29-58: b, c, l, g, u are the five draws in the order the code makes them
StereoWidthRow(b, c, l, g, u) ==
    LET stereo_width == b
        correlation == Clip(c, -1000, 1000)
        left_right_balance == Clip(l, -1000, 1000)
        mid_side_ratio == g
    IN  [stereoWidth |-> stereo_width,
         correlation |-> correlation,
         leftRightBalance |-> left_right_balance,
         midSideRatio |-> mid_side_ratio,
         classification |-> StereoClassification(stereo_width),
         confidence |-> StereoAttenuate(stereo_width, StereoBaseConfidence(stereo_width, u))]

-----------------------------------------------------------------------------
(* generate_phase_problem_data: the body of one loop iteration *)

\* lines 86-95: has_issue
PhaseHasIssue(correlation) == IF correlation < 300 THEN 1 ELSE 0

\* PhaseSeverity with correlation 0 counted as severe
PhaseSeverity_ZeroSevere(correlation) ==
    IF correlation < 300
    THEN IF correlation <= 0 THEN 2 ELSE 1
    ELSE 0

\* lines 86-96: severity, 0 none, 1 moderate, 2 severe
PhaseSeverity(correlation) ==
    IF correlation < 300
    THEN IF correlation < 0 THEN 2 ELSE 1
    ELSE 0

\* lines 86-97: the confidence of the branch taken; u is np.random.random()
PhaseBaseConfidence(correlation, u) ==
    IF correlation < 300
    THEN IF correlation < 0 THEN 8500000 + u * 1500 ELSE 7000000 + u * 2500
    ELSE 8500000 + u * 1500

\* lines 100-101: confidence *= 0.75 near the boundary
PhaseAttenuate(correlation, confidence) ==
    IF 250 < correlation /\ correlation < 350
    THEN (confidence * 75) \div 100
    ELSE confidence

\* lines 80-110: c, g, b, u are the four draws in the order the code makes them
PhaseProblemRow(c, g, b, u) ==
    LET correlation == Clip(c, -1000, 1000)
        mid_side_ratio == g
        stereo_width == b
    IN  [correlation |-> correlation,
         midSideRatio |-> mid_side_ratio,
         stereoWidth |-> stereo_width,
         hasIssue |-> PhaseHasIssue(correlation),
         severity |-> PhaseSeverity(correlation),
         confidence |-> PhaseAttenuate(correlation, PhaseBaseConfidence(correlation, u))]

-----------------------------------------------------------------------------
(* generate_frequency_balance_data: the body of one loop iteration *)

\* line 161: 100 * (1 - min(avg_deviation * 3, 1)), in 1/100 point
BalanceScoreBeforeNoise(ratios) == 10000 - Min(6 * DeviationSum(ratios), 10000)

\* BalanceScore without the final np.clip
BalanceScore_Unclipped(ratios, noise) == BalanceScoreBeforeNoise(ratios) + noise

\* lines 161-163: the score with its noise, clipped
BalanceScore(ratios, noise) == Clip(BalanceScoreBeforeNoise(ratios) + noise, 0, 10000)

\* FrequencyHasIssue with a deviation of exactly 0.15 counted as an issue
FrequencyHasIssue_Inclusive(ratios) == IF max_deviation(ratios) >= 150 THEN 1 ELSE 0

\* line 166
FrequencyHasIssue(ratios) == IF max_deviation(ratios) > 150 THEN 1 ELSE 0

\* lines 141-176: ratios and noise are the two draws in the order the code makes them
FrequencyBalanceRow(ratios, noise) ==
    [bassRatio |-> ratios[1],
     lowMidRatio |-> ratios[2],
     midRatio |-> ratios[3],
     highMidRatio |-> ratios[4],
     highRatio |-> ratios[5],
     balanceScore |-> BalanceScore(ratios, noise),
     hasIssue |-> FrequencyHasIssue(ratios)]

-----------------------------------------------------------------------------
(* generate_overall_quality_data: the body of one loop iteration *)

\* QualityScoreBeforeNoise with `if` in place of `elif`: both phase penalties can apply
QualityScoreBeforeNoise_BothPhase(stereo_width, correlation, dynamic_range, peak_level, ratios) ==
    LET s0 == 10000
        s1 == IF stereo_width < 300 \/ stereo_width > 700 THEN s0 - 1500 ELSE s0
        s2a == IF correlation < 0 THEN s1 - 3000 ELSE s1
        s2 == IF correlation < 300 THEN s2a - 1500 ELSE s2a
        s3 == IF dynamic_range < 6000 \/ dynamic_range > 18000 THEN s2 - 1000 ELSE s2
        s4 == IF peak_level > -1000 THEN s3 - 1000 ELSE s3
    IN  s4 - DeviationSum(ratios)

\* lines 202-225: the score after the penalties, before noise, in 1/100 point
QualityScoreBeforeNoise(stereo_width, correlation, dynamic_range, peak_level, ratios) ==
    LET s0 == 10000
        s1 == IF stereo_width < 300 \/ stereo_width > 700 THEN s0 - 1500 ELSE s0
        s2 == IF correlation < 0 THEN s1 - 3000
              ELSE IF correlation < 300 THEN s1 - 1500
              ELSE s1
        s3 == IF dynamic_range < 6000 \/ dynamic_range > 18000 THEN s2 - 1000 ELSE s2
        s4 == IF peak_level > -1000 THEN s3 - 1000 ELSE s3
    IN  s4 - DeviationSum(ratios)

\* lines 190-242: the six draws in the order the code makes them
OverallQualityRow(b, c, d, p, ratios, noise) ==
    LET stereo_width == b
        correlation == Clip(c, -1000, 1000)
        dynamic_range == Clip(d, 2000, 25000)
        peak_level == Clip(p, -20000, 0)
        score == QualityScoreBeforeNoise(stereo_width, correlation, dynamic_range,
                                         peak_level, ratios) + noise
    IN  [stereoWidth |-> stereo_width,
         correlation |-> correlation,
         dynamicRange |-> dynamic_range,
         peakLevel |-> peak_level,
         bassRatio |-> ratios[1],
         lowMidRatio |-> ratios[2],
         midRatio |-> ratios[3],
         highMidRatio |-> ratios[4],
         highRatio |-> ratios[5],
         overallScore |-> Clip(score, 0, 10000)]

-----------------------------------------------------------------------------
(* The four generators as one loop *)

\* the generators, in the order main() calls them (lines 253, 259, 265, 271)
Order == <<"stereo", "phase", "frequency", "quality">>

Generators == Range(Order)

\* the files main() writes, in the same order (lines 254, 260, 266, 272)
MainFiles == <<"stereo_width_training_data.csv", "phase_problem_training_data.csv",
               "frequency_balance_training_data.csv", "overall_quality_training_data.csv">>

\* the keys of the dict each generator appends, in the order of its literal
Columns(g) ==
    CASE g = "stereo" -> <<"stereoWidth", "correlation", "leftRightBalance", "midSideRatio",
                           "classification", "confidence">>
      [] g = "phase" -> <<"correlation", "midSideRatio", "stereoWidth", "hasIssue",
                          "severity", "confidence">>
      [] g = "frequency" -> <<"bassRatio", "lowMidRatio", "midRatio", "highMidRatio",
                              "highRatio", "balanceScore", "hasIssue">>
      [] g = "quality" -> <<"stereoWidth", "correlation", "dynamicRange", "peakLevel",
                            "bassRatio", "lowMidRatio", "midRatio", "highMidRatio",
                            "highRatio", "overallScore">>

\* the np.random calls of one loop iteration of g, in the order the code makes them
Tables(g) ==
    CASE g = "stereo" -> <<BetaVals, CorrHighVals, BalanceVals, GammaVals, UniformVals>>
      [] g = "phase" -> <<CorrMidVals, GammaVals, BetaVals, UniformVals>>
      [] g = "frequency" -> <<DirichletVals, BalanceNoiseVals>>
      [] g = "quality" -> <<WidthVals, CorrHighVals, DynVals, PeakVals, DirichletVals,
                            QualityNoiseVals>>

\* the draws one loop iteration of g makes when the global generator is in state s
Sample(g, s) == [k \in 1..Len(Tables(g)) |-> Draw(Tables(g)[k], RngAfter(s, k - 1))]

\* the row one loop iteration of g appends, given its draws d
Label(g, d) ==
    CASE g = "stereo" -> StereoWidthRow(d[1], d[2], d[3], d[4], d[5])
      [] g = "phase" -> PhaseProblemRow(d[1], d[2], d[3], d[4])
      [] g = "frequency" -> FrequencyBalanceRow(d[1], d[2])
      [] g = "quality" -> OverallQualityRow(d[1], d[2], d[3], d[4], d[5], d[6])

\* the rows a call of g with n_samples = n appends when the global generator is in
\* state s at its entry: the for loop as a function
RECURSIVE GeneratedRows(_, _, _)
GeneratedRows(g, n, s) ==
    IF n <= 0 THEN <<>>
    ELSE <<Label(g, Sample(g, s))>> \o GeneratedRows(g, n - 1, RngAfter(s, Len(Tables(g))))

\* pd.DataFrame(data): the rows are the dicts, the columns the keys of the first dict
DataFrame(d) ==
    [columns |-> IF d = <<>> THEN <<>>
                 ELSE CHOOSE c \in {Columns(g) : g \in Generators} : Range(c) = DOMAIN d[1],
     rows |-> d]

\* df.to_csv(name, index=False): a header line, then one line per row, the values in column order
ToCsv(df) ==
    [written |-> TRUE,
     header |-> df.columns,
     lines |-> [i \in 1..Len(df.rows) |->
                   [j \in 1..Len(df.columns) |-> df.rows[i][df.columns[j]]]]]

NoFile == [written |-> FALSE, header |-> <<>>, lines |-> <<>>]

-----------------------------------------------------------------------------
(* Initial states *)

\* the state every run starts from, whatever drives the generators
InitCommon ==
    /\ mainIdx = 1
    /\ status = "idle"
    /\ gname = "none"
    /\ n_samples = 0
    /\ iter = 0
    /\ data = <<>>
    /\ ret = DataFrame(<<>>)
    /\ calls = 0
    /\ files = [f \in Range(MainFiles) |-> NoFile]
    /\ writes = <<>>

\* remove_print_statements has not been called
ScanIdle ==
    /\ scanpc = "off"
    /\ lines = <<>>
    /\ pos = 0
    /\ new_lines = <<>>
    /\ in_print = FALSE
    /\ paren_count = 0
    /\ removed_count = 0

\* the module run as a script, or imported and its generators called
Init ==
    /\ mode \in {"main", "api"}
    /\ InitCommon
    /\ rng \in 0..MaxSeed
    /\ seed0 = rng
    /\ rowgen = "none"
    /\ raw = <<>>
    /\ row = <<>>
    /\ rowpc = "off"
    /\ ScanIdle

-----------------------------------------------------------------------------
(* Actions *)

\* entry of a generator: data = [] (lines 25, 77, 130, 186)
Enter(g, n) ==
    /\ gname' = g
    /\ n_samples' = n
    /\ iter' = 0
    /\ data' = <<>>
    /\ status' = "running"
    /\ calls' = calls + 1

\* an importer calls generator g with n_samples = n
ApiCall(g, n) ==
    /\ mode = "api"
    /\ status \in {"idle", "returned"}
    /\ calls < MaxCalls
    /\ Enter(g, n)
    /\ UNCHANGED <<mode, mainIdx, ret, rng, seed0, files, writes, rowgen, raw, row, rowpc, scanVars>>

\* main(): the next generator call (lines 253, 259, 265, 271)
MainCall ==
    /\ mode = "main"
    /\ status = "idle"
    /\ mainIdx <= Len(Order)
    /\ Enter(Order[mainIdx], MainSamples)
    /\ UNCHANGED <<mode, mainIdx, ret, rng, seed0, files, writes, rowgen, raw, row, rowpc, scanVars>>

\* one iteration of `for _ in range(n_samples)`: sample, label, append
LoopIteration ==
    /\ status = "running"
    /\ iter < n_samples
    /\ data' = Append(data, Label(gname, Sample(gname, rng)))
    /\ rng' = RngAfter(rng, Len(Tables(gname)))
    /\ iter' = iter + 1
    /\ UNCHANGED <<mode, mainIdx, status, gname, n_samples, ret, seed0, calls, files,
                   writes, rowgen, raw, row, rowpc, scanVars>>

\* Return, leaving the loop one iteration early
Return_OneEarly ==
    /\ status = "running"
    /\ ~(iter + 1 < n_samples)
    /\ ret' = DataFrame(data)
    /\ status' = "returned"
    /\ UNCHANGED <<mode, mainIdx, gname, n_samples, iter, data, rng, seed0, calls, files,
                   writes, rowgen, raw, row, rowpc, scanVars>>

\* range(n_samples) is exhausted: return pd.DataFrame(data) (lines 60, 112, 178, 244)
Return ==
    /\ status = "running"
    /\ ~(iter < n_samples)
    /\ ret' = DataFrame(data)
    /\ status' = "returned"
    /\ UNCHANGED <<mode, mainIdx, gname, n_samples, iter, data, rng, seed0, calls, files,
                   writes, rowgen, raw, row, rowpc, scanVars>>

\* MainToCsv, writing the rows collected so far without waiting for the return
MainToCsv_Early ==
    /\ mode = "main"
    /\ status \in {"running", "returned"}
    /\ files' = [files EXCEPT ![MainFiles[mainIdx]] = ToCsv(DataFrame(data))]
    /\ writes' = Append(writes, MainFiles[mainIdx])
    /\ mainIdx' = mainIdx + 1
    /\ status' = "idle"
    /\ UNCHANGED <<mode, gname, n_samples, iter, data, ret, rng, seed0, calls, rowgen,
                   raw, row, rowpc, scanVars>>

\* main(): <name>_data.to_csv(<file>, index=False) (lines 254, 260, 266, 272)
MainToCsv ==
    /\ mode = "main"
    /\ status = "returned"
    /\ files' = [files EXCEPT ![MainFiles[mainIdx]] = ToCsv(ret)]
    /\ writes' = Append(writes, MainFiles[mainIdx])
    /\ mainIdx' = mainIdx + 1
    /\ status' = "idle"
    /\ UNCHANGED <<mode, gname, n_samples, iter, data, ret, rng, seed0, calls, rowgen,
                   raw, row, rowpc, scanVars>>

Next ==
    \/ \E g \in Generators, n \in -1..MaxN : ApiCall(g, n)
    \/ MainCall
    \/ LoopIteration
    \/ Return
    \/ MainToCsv

Spec == Init /\ [][Next]_vars

\* the interpreter runs a started generator call on: a loop iteration or a return that
\* can be taken is taken
FairSpec == Spec /\ WF_vars(LoopIteration) /\ WF_vars(Return)

-----------------------------------------------------------------------------
(* The row rules on enumerated draws *)

\* every combination of values the draws of one iteration of g can return
RawDraws(g) ==
    CASE g = "stereo" ->
           {<<b, c, l, m, u>> : b \in Range(BetaVals), c \in Range(CorrHighVals),
                                l \in Range(BalanceVals), m \in Range(GammaVals),
                                u \in Range(UniformVals)}
      [] g = "phase" ->
           {<<c, m, b, u>> : c \in Range(CorrMidVals), m \in Range(GammaVals),
                             b \in Range(BetaVals), u \in Range(UniformVals)}
      [] g = "frequency" ->
           {<<r, z>> : r \in Range(DirichletVals), z \in Range(BalanceNoiseVals)}
      [] g = "quality" ->
           {<<b, c, d, p, r, z>> : b \in Range(WidthVals), c \in Range(CorrHighVals),
                                   d \in Range(DynVals), p \in Range(PeakVals),
                                   r \in Range(DirichletVals), z \in Range(QualityNoiseVals)}

InitRule ==
    /\ mode = "rule"
    /\ InitCommon
    /\ rng = 0
    /\ seed0 = 0
    /\ rowgen \in Generators
    /\ raw \in RawDraws(rowgen)
    /\ row = <<>>
    /\ rowpc = "sampled"
    /\ ScanIdle

\* the labelling part of one loop iteration, applied to the draws raw
ApplyRule ==
    /\ mode = "rule"
    /\ rowpc = "sampled"
    /\ row' = Label(rowgen, raw)
    /\ rowpc' = "labelled"
    /\ UNCHANGED <<mode, mainIdx, status, gname, n_samples, iter, data, ret, rng, seed0,
                   calls, files, writes, rowgen, raw, scanVars>>

NextRule == ApplyRule

SpecRule == InitRule /\ [][NextRule]_vars

-----------------------------------------------------------------------------
(* Claims *)

\* C1: a generator call with sample count N <= 0 fails with InvalidArgument before
\* anything is sampled, so such a call never returns a Dataset, not even an empty one.
C1_NonPositiveCountRejected == ~(status = "returned" /\ n_samples <= 0)

\* C2: for every positive N a generator call terminates and returns exactly N rows; the
\* accumulator starts empty, grows by exactly one row per loop iteration, appended rows
\* are never changed or removed, and the loop stops after the N-th row.
C2_ExactlyNRows ==
    /\ [](status = "running" =>
            /\ Len(data) = iter
            /\ (n_samples > 0 => iter <= n_samples))
    /\ [](status = "returned" /\ n_samples > 0 =>
            /\ Len(ret.rows) = n_samples
            /\ ret.rows = data)
    /\ [][status' = "running" =>
            IF status = "running"
            THEN \/ data' = data
                 \/ /\ iter' = iter + 1
                    /\ Len(data') = Len(data) + 1
                    /\ SubSeq(data', 1, Len(data)) = data
            ELSE data' = <<>> /\ iter' = 0]_vars
    /\ ((status = "running") ~> (status = "returned"))

\* C2 witness: an API call with the largest count has returned that many rows
C2_Witness ==
    /\ mode = "api"
    /\ status = "returned"
    /\ n_samples = MaxN
    /\ Len(ret.rows) = MaxN
    /\ ret.rows[1] # ret.rows[MaxN]

\* C9: every generation call owns its own seeded stream: the rows a call returns are
\* determined by the generator, its sample count and the seed alone, whatever was called
\* before it, so they are the rows the generator yields on a stream fresh from the seed.
C9_RowsDependOnSeedAndCountOnly ==
    status = "returned" => ret.rows = GeneratedRows(gname, n_samples, seed0)

\* C10: main() calls the four generators one after another in the order stereo, phase,
\* frequency, quality, each with the driver's sample count, and writes each Dataset to
\* its own file only after the generator has returned all of its rows: every file holds
\* one line per sample, and at completion exactly the four files are written, once each.
C10_MainWritesCompleteDatasetsInOrder ==
    /\ [](mode = "main" =>
            /\ mainIdx \in 1..(Len(Order) + 1)
            /\ writes = SubSeq(MainFiles, 1, mainIdx - 1)
            /\ calls = (mainIdx - 1) + (IF status = "idle" THEN 0 ELSE 1)
            /\ (status # "idle" => gname = Order[mainIdx] /\ n_samples = MainSamples)
            /\ \A k \in 1..Len(MainFiles) :
                  LET f == files[MainFiles[k]] IN
                  /\ f.written <=> k < mainIdx
                  /\ f.written => /\ Len(f.lines) = MainSamples
                                  /\ f.header = Columns(Order[k])
                                  /\ \A i \in 1..Len(f.lines) :
                                        Len(f.lines[i]) = Len(Columns(Order[k])))
    /\ [][mode = "main" /\ files' # files =>
            /\ status = "returned"
            /\ iter = n_samples
            /\ Len(ret.rows) = n_samples
            /\ writes' = Append(writes, MainFiles[mainIdx])
            /\ files' = [files EXCEPT ![MainFiles[mainIdx]] = ToCsv(ret)]
            /\ ~files[MainFiles[mainIdx]].written]_vars

\* C10 witness: main() has completed and the four files are written
C10_Witness ==
    /\ mode = "main"
    /\ mainIdx = Len(Order) + 1
    /\ status = "idle"
    /\ writes = MainFiles
    /\ \A k \in 1..Len(MainFiles) : Len(files[MainFiles[k]].lines) = MainSamples

-----------------------------------------------------------------------------
(* Claims about the row rules, on every combination of draws *)

\* C3: in every stereo-width row classification is decided by stereoWidth alone:
\* 0 iff stereoWidth < 0.3, 2 iff stereoWidth > 0.7, 1 iff 0.3 <= stereoWidth <= 0.7,
\* and never a value outside {0, 1, 2}.
C3_ClassificationFromStereoWidth ==
    rowpc = "labelled" /\ rowgen = "stereo" =>
        /\ row.classification \in {0, 1, 2}
        /\ (row.classification = 0 <=> row.stereoWidth < 300)
        /\ (row.classification = 2 <=> row.stereoWidth > 700)
        /\ (row.classification = 1 <=> (300 <= row.stereoWidth /\ row.stereoWidth <= 700))
        /\ row.stereoWidth = raw[1]

\* C3 witness: Scenario A (stereoWidth 0.1, correlation 0.9, balance 0, mid/side 2) is tooNarrow
C3_Witness ==
    /\ rowpc = "labelled" /\ rowgen = "stereo"
    /\ row.stereoWidth = 100 /\ row.correlation = 900
    /\ row.leftRightBalance = 0 /\ row.midSideRatio = 2000
    /\ row.classification = 0

\* C4: in every phase row severity is 2 iff correlation < 0, 1 iff 0 <= correlation < 0.3,
\* 0 iff correlation >= 0.3, and hasIssue is 1 iff correlation < 0.3, so hasIssue = 1
\* exactly when severity is not 0.
C4_PhaseLabelsFromCorrelation ==
    rowpc = "labelled" /\ rowgen = "phase" =>
        /\ row.correlation = (IF raw[1] < -1000 THEN -1000 ELSE IF raw[1] > 1000 THEN 1000 ELSE raw[1])
        /\ row.severity \in {0, 1, 2}
        /\ row.hasIssue \in {0, 1}
        /\ (row.severity = 2 <=> row.correlation < 0)
        /\ (row.severity = 1 <=> (0 <= row.correlation /\ row.correlation < 300))
        /\ (row.severity = 0 <=> row.correlation >= 300)
        /\ (row.hasIssue = 1 <=> row.correlation < 300)
        /\ (row.hasIssue = 1 <=> row.severity # 0)

\* C4 witness: correlation exactly 0 is moderate, with an issue
C4_Witness ==
    /\ rowpc = "labelled" /\ rowgen = "phase"
    /\ row.correlation = 0 /\ row.severity = 1 /\ row.hasIssue = 1

\* C5: in every row, for every outcome of the draws, confidence is in (0, 1]
\* (stereo-width and phase rows) and the score is in [0, 100] (frequency and quality rows).
C5_LabelsInRange ==
    rowpc = "labelled" =>
        /\ rowgen \in {"stereo", "phase"} => 0 < row.confidence /\ row.confidence <= 10000000
        /\ rowgen = "frequency" => 0 <= row.balanceScore /\ row.balanceScore <= 10000
        /\ rowgen = "quality" => 0 <= row.overallScore /\ row.overallScore <= 10000

\* C5 witness: a frequency row whose noise alone is three times the score range
C5_Witness ==
    /\ rowpc = "labelled" /\ rowgen = "frequency"
    /\ raw[2] = 30000
    /\ row.balanceScore = 10000

\* C6: every feature of every row lies in its declared domain, being the draw clipped to
\* that domain: stereoWidth in [0,1], correlation and leftRightBalance in [-1,1],
\* midSideRatio >= 0, dynamicRange in [2,25], peakLevel in [-20,0], each ratio in [0,1];
\* an out-of-range draw still yields a row.
C6_FeaturesInDomain ==
    /\ rowpc = "sampled" => ENABLED ApplyRule
    /\ rowpc = "labelled" =>
        LET In(x, lo, hi) == lo <= x /\ x <= hi
            Nearest(x, lo, hi) == IF x < lo THEN lo ELSE IF x > hi THEN hi ELSE x
        IN
        /\ rowgen = "stereo" =>
              /\ In(row.stereoWidth, 0, 1000) /\ row.stereoWidth = Nearest(raw[1], 0, 1000)
              /\ In(row.correlation, -1000, 1000) /\ row.correlation = Nearest(raw[2], -1000, 1000)
              /\ In(row.leftRightBalance, -1000, 1000)
              /\ row.leftRightBalance = Nearest(raw[3], -1000, 1000)
              /\ row.midSideRatio >= 0 /\ row.midSideRatio = raw[4]
        /\ rowgen = "phase" =>
              /\ In(row.correlation, -1000, 1000) /\ row.correlation = Nearest(raw[1], -1000, 1000)
              /\ row.midSideRatio >= 0 /\ row.midSideRatio = raw[2]
              /\ In(row.stereoWidth, 0, 1000) /\ row.stereoWidth = Nearest(raw[3], 0, 1000)
        /\ rowgen = "frequency" =>
              /\ In(row.bassRatio, 0, 1000) /\ In(row.lowMidRatio, 0, 1000)
              /\ In(row.midRatio, 0, 1000) /\ In(row.highMidRatio, 0, 1000)
              /\ In(row.highRatio, 0, 1000)
              /\ <<row.bassRatio, row.lowMidRatio, row.midRatio, row.highMidRatio,
                   row.highRatio>> = raw[1]
        /\ rowgen = "quality" =>
              /\ In(row.stereoWidth, 0, 1000) /\ row.stereoWidth = Nearest(raw[1], 0, 1000)
              /\ In(row.correlation, -1000, 1000) /\ row.correlation = Nearest(raw[2], -1000, 1000)
              /\ In(row.dynamicRange, 2000, 25000)
              /\ row.dynamicRange = Nearest(raw[3], 2000, 25000)
              /\ In(row.peakLevel, -20000, 0) /\ row.peakLevel = Nearest(raw[4], -20000, 0)
              /\ In(row.bassRatio, 0, 1000) /\ In(row.lowMidRatio, 0, 1000)
              /\ In(row.midRatio, 0, 1000) /\ In(row.highMidRatio, 0, 1000)
              /\ In(row.highRatio, 0, 1000)
              /\ <<row.bassRatio, row.lowMidRatio, row.midRatio, row.highMidRatio,
                   row.highRatio>> = raw[5]

\* C6 witness: a quality row whose correlation, dynamicRange and peakLevel draws were all
\* out of range
C6_Witness ==
    /\ rowpc = "labelled" /\ rowgen = "quality"
    /\ raw[2] = -1100 /\ row.correlation = -1000
    /\ raw[3] = 26000 /\ row.dynamicRange = 25000
    /\ raw[4] = 500 /\ row.peakLevel = 0

\* C7: in every quality row the score before noise and clipping is 100 minus the sum of the
\* independent penalties (15 for width outside [0.3,0.7]; 30 for correlation < 0, else 15
\* for correlation < 0.3; 10 for dynamicRange outside [6,18]; 10 for peakLevel > -1; 50
\* times the mean absolute deviation of the ratios from the ideal vector), and it is 100
\* for width 0.5, correlation 0.8, dynamicRange 12, peakLevel -3 and the ideal ratios.
C7_QualityPenalties ==
    rowpc = "labelled" /\ rowgen = "quality" =>
        LET r == <<row.bassRatio, row.lowMidRatio, row.midRatio, row.highMidRatio, row.highRatio>>
            dist(a, b) == IF a < b THEN b - a ELSE a - b
            widthPenalty == IF row.stereoWidth < 300 \/ row.stereoWidth > 700 THEN 1500 ELSE 0
            phasePenalty == IF row.correlation < 0 THEN 3000
                            ELSE IF row.correlation < 300 THEN 1500 ELSE 0
            dynPenalty == IF row.dynamicRange < 6000 \/ row.dynamicRange > 18000 THEN 1000 ELSE 0
            peakPenalty == IF row.peakLevel > -1000 THEN 1000 ELSE 0
            \* 50 * (sum / 5) / 1000 points = sum / 100 points = sum hundredths of a point
            freqPenalty == dist(r[1], 250) + dist(r[2], 150) + dist(r[3], 300)
                             + dist(r[4], 180) + dist(r[5], 120)
            before == 10000 - (widthPenalty + phasePenalty + dynPenalty + peakPenalty + freqPenalty)
            noisy == before + raw[6]
        IN
        /\ before = QualityScoreBeforeNoise(row.stereoWidth, row.correlation,
                                            row.dynamicRange, row.peakLevel, r)
        /\ row.overallScore = (IF noisy < 0 THEN 0 ELSE IF noisy > 10000 THEN 10000 ELSE noisy)
        /\ (/\ row.stereoWidth = 500 /\ row.correlation = 800 /\ row.dynamicRange = 12000
            /\ row.peakLevel = -3000 /\ r = <<250, 150, 300, 180, 120>>) => before = 10000

\* C7 witness: Scenario E without noise scores 100, and a row with every penalty exists
C7_Witness ==
    /\ rowpc = "labelled" /\ rowgen = "quality"
    /\ row.stereoWidth = 500 /\ row.correlation = 800 /\ row.dynamicRange = 12000
    /\ row.peakLevel = -3000 /\ raw[5] = <<250, 150, 300, 180, 120>> /\ raw[6] = 0
    /\ row.overallScore = 10000

\* C8: in every frequency row hasIssue is 1 iff the largest per-band deviation from the
\* ideal vector exceeds 0.15, and the score before noise is 100 * (1 - min(3 * mean
\* deviation, 1)), never below 0 or above 100; the ideal ratios give 100 and hasIssue 0.
C8_FrequencyLabels ==
    rowpc = "labelled" /\ rowgen = "frequency" =>
        LET r == <<row.bassRatio, row.lowMidRatio, row.midRatio, row.highMidRatio, row.highRatio>>
            dist(a, b) == IF a < b THEN b - a ELSE a - b
            dev == <<dist(r[1], 250), dist(r[2], 150), dist(r[3], 300), dist(r[4], 180),
                     dist(r[5], 120)>>
            sum == dev[1] + dev[2] + dev[3] + dev[4] + dev[5]
            \* 3 * mean = 3 * sum / 5000; 100 * (1 - that) points = 10000 - 6 * sum hundredths
            before == IF 3 * sum >= 5000 THEN 0 ELSE 10000 - 6 * sum
            noisy == before + raw[2]
        IN
        /\ (row.hasIssue = 1 <=> \E k \in 1..5 : dev[k] > 150)
        /\ row.hasIssue \in {0, 1}
        /\ before = BalanceScoreBeforeNoise(r)
        /\ 0 <= before /\ before <= 10000
        /\ row.balanceScore = (IF noisy < 0 THEN 0 ELSE IF noisy > 10000 THEN 10000 ELSE noisy)
        /\ r = <<250, 150, 300, 180, 120>> => before = 10000 /\ row.hasIssue = 0

\* C8 witness: Scenario D, the ideal ratios without noise: score 100, no issue
C8_Witness ==
    /\ rowpc = "labelled" /\ rowgen = "frequency"
    /\ raw[1] = <<250, 150, 300, 180, 120>> /\ raw[2] = 0
    /\ row.balanceScore = 10000 /\ row.hasIssue = 0

\* C11 (as claimed): the attenuation is applied at most once, after the base confidence is
\* chosen, exactly when the feature is strictly inside the window (stereo: x 0.7 iff
\* 0.28 < stereoWidth < 0.32 or 0.68 < stereoWidth < 0.72, whatever the classification;
\* phase: x 0.75 iff 0.25 < correlation < 0.35), rows outside keep the base confidence,
\* and so a stereo-width row has confidence < 0.7 iff its stereoWidth is inside a window.
C11_ConfidenceBelowThresholdIffInWindow ==
    rowpc = "labelled" =>
        /\ rowgen = "stereo" =>
              LET inWindow == \/ (280 < row.stereoWidth /\ row.stereoWidth < 320)
                              \/ (680 < row.stereoWidth /\ row.stereoWidth < 720)
                  base == IF row.classification = 1 THEN 8000000 + raw[5] * 2000
                          ELSE 7000000 + raw[5] * 2500
              IN  /\ row.confidence * 10 = (IF inWindow THEN base * 7 ELSE base * 10)
                  /\ (row.confidence < 7000000 <=> inWindow)
        /\ rowgen = "phase" =>
              LET inWindow == 250 < row.correlation /\ row.correlation < 350
                  base == IF row.severity = 1 THEN 7000000 + raw[4] * 2500
                          ELSE 8500000 + raw[4] * 1500
              IN  row.confidence * 100 = (IF inWindow THEN base * 75 ELSE base * 100)

\* C11 (amended): the attenuation is applied at most once, after the base confidence is
\* chosen, exactly when the feature is strictly inside the window, and rows outside keep
\* the base confidence; so a stereo-width row inside a window has confidence <= 0.7, a row
\* outside has confidence >= 0.7, and confidence < 0.7 only inside a window; an in-window
\* row has confidence exactly 0.7 only when its base confidence is 1.0.
C11_AttenuationExactlyInWindow ==
    rowpc = "labelled" =>
        /\ rowgen = "stereo" =>
              LET inWindow == \/ (280 < row.stereoWidth /\ row.stereoWidth < 320)
                              \/ (680 < row.stereoWidth /\ row.stereoWidth < 720)
                  base == IF row.classification = 1 THEN 8000000 + raw[5] * 2000
                          ELSE 7000000 + raw[5] * 2500
              IN  /\ row.confidence * 10 = (IF inWindow THEN base * 7 ELSE base * 10)
                  /\ (inWindow => row.confidence <= 7000000)
                  /\ (~inWindow => row.confidence >= 7000000)
                  /\ (row.confidence < 7000000 => inWindow)
                  /\ (inWindow /\ row.confidence = 7000000 => base = 10000000)
        /\ rowgen = "phase" =>
              LET inWindow == 250 < row.correlation /\ row.correlation < 350
                  base == IF row.severity = 1 THEN 7000000 + raw[4] * 2500
                          ELSE 8500000 + raw[4] * 1500
              IN  row.confidence * 100 = (IF inWindow THEN base * 75 ELSE base * 100)

\* C11 witness: a 'good' row with stereoWidth in [0.3, 0.32) is attenuated
C11_Witness ==
    /\ rowpc = "labelled" /\ rowgen = "stereo"
    /\ row.stereoWidth = 319 /\ row.classification = 1
    /\ raw[5] = 500
    /\ row.confidence = 6300000

-----------------------------------------------------------------------------
(* remove_prints.py: remove_print_statements *)

\* What the scan reads of a line: print is `'print(' in line`, open is line.count('('),
\* close is line.count(')').  A line containing 'print(' has at least one '('.
\*   let x = 1            foo()               foo(                )
\*   print("a")           print("a",          print(f(            print("a") })
LineKinds ==
    {[print |-> FALSE, open |-> 0, close |-> 0],
     [print |-> FALSE, open |-> 1, close |-> 1],
     [print |-> FALSE, open |-> 1, close |-> 0],
     [print |-> FALSE, open |-> 0, close |-> 1],
     [print |-> TRUE, open |-> 1, close |-> 1],
     [print |-> TRUE, open |-> 1, close |-> 0],
     [print |-> TRUE, open |-> 2, close |-> 0],
     [print |-> TRUE, open |-> 1, close |-> 2]}

\* f.readlines(): the files of at most MaxLines lines; `no` is the line's number in the
\* file and stands for its text
ScanInputs ==
    UNION {{[i \in 1..n |-> [no |-> i, print |-> k[i].print, open |-> k[i].open,
                             close |-> k[i].close]] : k \in [1..n -> LineKinds]}
           : n \in 0..MaxLines}

\* remove_print_statements(file_path) after lines 12-19
InitScan ==
    /\ mode = "scan"
    /\ InitCommon
    /\ rng = 0
    /\ seed0 = 0
    /\ rowgen = "none"
    /\ raw = <<>>
    /\ row = <<>>
    /\ rowpc = "off"
    /\ scanpc = "loop"
    /\ lines \in ScanInputs
    /\ pos = 0
    /\ new_lines = <<>>
    /\ in_print = FALSE
    /\ paren_count = 0
    /\ removed_count = 0

\* one iteration of `for line in lines` (lines 21-43)
ScanLine ==
    /\ scanpc = "loop"
    /\ pos < Len(lines)
    /\ LET line == lines[pos + 1]
           delta == line.open - line.close
       IN  IF line.print /\ ~in_print
           THEN /\ paren_count' = delta
                /\ in_print' = (delta # 0)
                /\ removed_count' = removed_count + 1
                /\ new_lines' = new_lines
           ELSE IF in_print
           THEN /\ paren_count' = paren_count + delta
                /\ in_print' = ~(paren_count + delta <= 0)
                /\ removed_count' = removed_count
                /\ new_lines' = new_lines
           ELSE /\ new_lines' = Append(new_lines, line)
                /\ UNCHANGED <<paren_count, in_print, removed_count>>
    /\ pos' = pos + 1
    /\ UNCHANGED <<mode, mainIdx, status, gname, n_samples, iter, data, ret, rng, seed0,
                   calls, files, writes, rowgen, raw, row, rowpc, scanpc, lines>>

\* the loop is over: return new_lines, removed_count (line 45)
ScanReturn ==
    /\ scanpc = "loop"
    /\ pos = Len(lines)
    /\ scanpc' = "returned"
    /\ UNCHANGED <<mode, mainIdx, status, gname, n_samples, iter, data, ret, rng, seed0,
                   calls, files, writes, rowgen, raw, row, rowpc, lines, pos, new_lines,
                   in_print, paren_count, removed_count>>

NextScan ==
    \/ ScanLine
    \/ ScanReturn

SpecScan == InitScan /\ [][NextScan]_vars

\* C12, the claim's rule: the number of parentheses of a print statement still open after
\* line i ('(' minus ')' counted since the statement's first line), 0 outside a statement
RECURSIVE C12_OpenAfter(_, _)
C12_OpenAfter(ls, i) ==
    IF i = 0 THEN 0
    ELSE LET before == C12_OpenAfter(ls, i - 1)
             delta == ls[i].open - ls[i].close
         IN  IF before > 0
             THEN (IF before + delta > 0 THEN before + delta ELSE 0)
             ELSE IF ls[i].print /\ delta > 0 THEN delta ELSE 0

\* C12, the claim's rule: line i is dropped iff it contains 'print(' or continues a print
\* statement whose parentheses are still open
C12_Dropped(ls, i) == ls[i].print \/ C12_OpenAfter(ls, i - 1) > 0

\* C12: remove_print_statements drops exactly the lines that contain 'print(' or continue
\* a print statement whose parentheses are still open, keeps every other line in its
\* original order (so the first line after a closed print statement is kept), and is in
\* the in_print state only while the statement's parentheses are unbalanced.
C12_OnlyPrintLinesRemoved ==
    scanpc # "off" =>
        LET Kept(l) == ~C12_Dropped(lines, l.no) IN
        /\ new_lines = SelectSeq(SubSeq(lines, 1, pos), Kept)
        /\ (in_print <=> C12_OpenAfter(lines, pos) > 0)

====
